---- MODULE Spec2Model ----
(***************************************************************************)
(* OnPair / OnPair16: dictionary compressors for collections of short     *)
(* strings, and their longest prefix matchers.                             *)
(*                                                                         *)
(* A byte slice data[s..e] of the source is modelled by the triple         *)
(* (buf, s, e): the flat buffer and the 0-based half-open range in it.     *)
(* A u64 loaded from memory is modelled by its 8 little-endian bytes,      *)
(* word[1] being the lowest byte.  Vec indices are 0-based as in the       *)
(* source; element i of a Vec v is v[i + 1].                               *)
(***************************************************************************)
EXTENDS Integers, Sequences, FiniteSets, TLC

(* ------------------------------ bounds -------------------------------- *)

\* Number of byte values of the model (the source has 256: 0..255).  The
\* single-byte tokens are 0..NumBytes-1 and the first merged token gets the
\* id NumBytes (256 in the source).
NumBytes == 2

\* Largest token id of the model (u16::MAX in the source).
MaxTokenId == 7

\* Largest merge threshold OnPair16::new is called with.
MaxThreshold == 3

(* ------------------------- program constants -------------------------- *)

TRIE_PREFIX_LEN == 8

FAST_COPY_SIZE == 16

MAX_LENGTH == 16

N_INLINE_SUFFIXES == 4

MAX_BUCKET_SIZE == 128

(* ------------------------------ helpers ------------------------------- *)

Bytes == 0..(NumBytes - 1)

Min(S) == CHOOSE x \in S : \A y \in S : x <= y

Max(S) == CHOOSE x \in S : \A y \in S : x >= y

MinOf(a, b) == IF a <= b THEN a ELSE b

Rep(b, n) == [i \in 1..n |-> b]

IndexOf(seq, x) == CHOOSE i \in 1..Len(seq) : seq[i] = x

\* Option<(id, usize)>: None, and Some((id, len)).
NONE == [some |-> FALSE, id |-> 0, len |-> 0]

Some(id, len) == [some |-> TRUE, id |-> id, len |-> len]

EmptyMap == [x \in {} |-> 0]

MapPut(m, k, v) == [x \in (DOMAIN m) \cup {k} |-> IF x = k THEN v ELSE m[x]]

MapRemove(m, k) == [x \in (DOMAIN m) \ {k} |-> m[x]]

\* Vec<u8> slice buf[s..e] as a sequence.
Slice(buf, s, e) == [i \in 1..(e - s) |-> buf[s + i]]

(* ------------------------------- state -------------------------------- *)

VARIABLES
    \* the variant of the instance, its merge threshold, the arguments of
    \* the running compress_bytes call and the permutation the shuffle picked
    variant, threshold, data, end_positions, shuffled_indices,
    \* the scale of the run: how many byte values stand for the 256 of the
    \* program, the token id that stands for u16::MAX, and the number that
    \* stands for MAX_BUCKET_SIZE
    scale,
    \* history: the shuffle order and the containers of an earlier run on
    \* the same arguments, when the run is the second of two
    first_run,
    \* the fields of OnPair / OnPair16
    compressed_data, string_boundaries, dictionary, token_boundaries,
    \* the locals of train_dictionary and parse_data
    frequency, next_token_id, it, pos, previous_token_id, previous_length,
    \* the matchers
    lpm, lpm16, static_lpm,
    \* control: the place in the code, and the compress_bytes calls started
    pc, calls,
    \* what the last decompress_string / decompress_all call returned
    decoded,
    \* history: the (key, id) pairs the matcher under test accepted
    accepted

(* ----------------------- byte-packing primitives ---------------------- *)

\* *(ptr as *const u64): the 8 bytes at offset off of buf.  Bytes past the
\* end of the buffer are the caller's padding, whose value is padb.
Load8(buf, off, padb) ==
    [i \in 1..8 |-> IF off + i <= Len(buf) THEN buf[off + i] ELSE padb]

\* value & MASKS[len]
MASKS(value, len) == [i \in 1..8 |-> IF i <= len THEN value[i] ELSE 0]

bytes_to_u64_le(buf, off, len, padb) == MASKS(Load8(buf, off, padb), len)

\* (a ^ b).trailing_zeros() >> 3: the number of low bytes a and b share;
\* trailing_zeros of 0 is 64.
shared_prefix_size(a, b) ==
    LET diff == {i \in 1..8 : a[i] # b[i]}
    IN  IF diff = {} THEN 8 ELSE Min(diff) - 1

is_prefix(text, prefix, text_size, prefix_size) ==
    prefix_size <= text_size /\ shared_prefix_size(text, prefix) >= prefix_size

(* --------------- LongestPrefixMatcher (lpm.rs, variant A) ------------- *)

NoId == -1

NewTrieNode == [id |-> NoId, children |-> <<>>]

\* LongestPrefixMatcher::new
NewLpm ==
    [short_match_lookup |-> EmptyMap,
     long_match_roots   |-> EmptyMap,
     node_pool          |-> <<>>]

\* FindChild without the comparison c == byte: the first child, whatever
\* its byte.
FindChild_anybyte(children, byte) ==
    IF children = <<>> THEN NoId ELSE children[1][2]

\* The scan `for &(c, idx) in &node.children` with its break: the index of
\* the first child for byte, or NoId.
FindChild(children, byte) ==
    LET hits == {j \in 1..Len(children) : children[j][1] = byte}
    IN  IF hits = {} THEN NoId ELSE children[Min(hits)][2]

\* The loop `for &byte in &entry[TRIE_PREFIX_LEN..]` of insert, from byte
\* offset i of the entry: the pool and the node reached.
RECURSIVE TrieInsertWalk(_, _, _, _, _)
TrieInsertWalk(pool, node_idx, buf, i, e) ==
    IF i >= e THEN [pool |-> pool, node |-> node_idx]
    ELSE LET byte  == buf[i + 1]
             child == FindChild(pool[node_idx + 1].children, byte)
         IN  IF child # NoId
             THEN TrieInsertWalk(pool, child, buf, i + 1, e)
             ELSE LET new_idx == Len(pool)
                      linked  == [pool EXCEPT ![node_idx + 1].children =
                                      Append(@, <<byte, new_idx>>)]
                  IN  TrieInsertWalk(Append(linked, NewTrieNode), new_idx,
                                     buf, i + 1, e)

\* insert that leaves the matcher as it is.
insert_nothing(m, buf, s, e, id, padb) == m

\* LongestPrefixMatcher::insert(entry = buf[s..e], id)
insert(m, buf, s, e, id, padb) ==
    IF e - s <= TRIE_PREFIX_LEN
    THEN [m EXCEPT !.short_match_lookup =
              MapPut(@, <<bytes_to_u64_le(buf, s, e - s, padb), e - s>>, id)]
    ELSE LET prefix  == bytes_to_u64_le(buf, s, TRIE_PREFIX_LEN, padb)
             hasRoot == prefix \in DOMAIN m.long_match_roots
             root    == IF hasRoot THEN m.long_match_roots[prefix]
                        ELSE Len(m.node_pool)
             pool0   == IF hasRoot THEN m.node_pool
                        ELSE Append(m.node_pool, NewTrieNode)
             w       == TrieInsertWalk(pool0, root, buf, s + TRIE_PREFIX_LEN, e)
         IN  [m EXCEPT !.long_match_roots = MapPut(@, prefix, root),
                       !.node_pool = [w.pool EXCEPT ![w.node + 1].id = id]]

\* The loop `for &byte in &data[TRIE_PREFIX_LEN..]` of find_longest_match:
\* best_long_match after the walk.
RECURSIVE TrieFindWalk(_, _, _, _, _, _, _)
TrieFindWalk(pool, current_idx, current_len, best, buf, i, e) ==
    IF i >= e THEN best
    ELSE LET found == FindChild(pool[current_idx + 1].children, buf[i + 1])
         IN  IF found = NoId THEN best
             ELSE TrieFindWalk(pool, found, current_len + 1,
                               IF pool[found + 1].id # NoId
                               THEN Some(pool[found + 1].id, current_len + 1)
                               ELSE best,
                               buf, i + 1, e)

\* Phase 2 of find_longest_match: lengths min(8, len) down to 1, first hit.
ShortSearch(lookup, buf, s, e, maxlen, padb) ==
    LET hits == {l \in 1..MinOf(maxlen, e - s) :
                    <<bytes_to_u64_le(buf, s, l, padb), l>> \in DOMAIN lookup}
    IN  IF hits = {} THEN NONE
        ELSE Some(lookup[<<bytes_to_u64_le(buf, s, Max(hits), padb), Max(hits)>>],
                  Max(hits))

\* LongestPrefixMatcher::find_longest_match(data = buf[s..e])
find_longest_match(m, buf, s, e, padb) ==
    LET prefix == bytes_to_u64_le(buf, s, TRIE_PREFIX_LEN, padb)
        long   == IF e - s > TRIE_PREFIX_LEN
                     /\ prefix \in DOMAIN m.long_match_roots
                  THEN TrieFindWalk(m.node_pool, m.long_match_roots[prefix],
                                    TRIE_PREFIX_LEN, NONE, buf,
                                    s + TRIE_PREFIX_LEN, e)
                  ELSE NONE
    IN  IF long.some THEN long
        ELSE ShortSearch(m.short_match_lookup, buf, s, e, TRIE_PREFIX_LEN, padb)

(* ------------- LongestPrefixMatcher16 (lpm16.rs, variant B) ----------- *)

\* LongestPrefixMatcher16::new
NewLpm16 == [dictionary |-> EmptyMap, buckets |-> EmptyMap]

InsertAt(seq, p, x) ==
    [i \in 1..(Len(seq) + 1) |->
        IF i <= p THEN seq[i] ELSE IF i = p + 1 THEN x ELSE seq[i - 1]]

\* The push without the sort that follows it.
PushOnly(bucket, entry) == {Append(bucket, entry)}

\* bucket.push(entry); bucket.sort_unstable_by(|a, b| b.1.cmp(&a.1)) on a
\* bucket that was sorted before the push: the entry lands somewhere among
\* the entries of its own suffix length, an unstable sort not saying where.
PushAndSort(bucket, entry) ==
    {InsertAt(bucket, p, entry) : p \in
        {q \in 0..Len(bucket) :
            /\ \A i \in 1..q : bucket[i][2] >= entry[2]
            /\ \A i \in (q + 1)..Len(bucket) : bucket[i][2] <= entry[2]}}

\* LongestPrefixMatcher16::insert(data = buf[s..e], id): the possible
\* outcomes, each the matcher after the call and the value returned.
insert16(m, buf, s, e, id, padb) ==
    LET length == e - s
    IN  IF length <= 8
        THEN {[lpm   |-> [m EXCEPT !.dictionary =
                            MapPut(@, <<bytes_to_u64_le(buf, s, length, padb),
                                        length>>, id)],
               added |-> TRUE]}
        ELSE LET prefix     == bytes_to_u64_le(buf, s, 8, padb)
                 bucket     == IF prefix \in DOMAIN m.buckets
                               THEN m.buckets[prefix] ELSE <<>>
                 suffix_len == length - 8
                 suffix     == bytes_to_u64_le(buf, s + 8, suffix_len, padb)
             IN  IF Len(bucket) > scale.bucket_cap
                 THEN {[lpm   |-> [m EXCEPT !.buckets = MapPut(@, prefix, bucket)],
                        added |-> FALSE]}
                 ELSE {[lpm   |-> [m EXCEPT !.buckets = MapPut(@, prefix, b)],
                        added |-> TRUE] :
                       b \in PushAndSort(bucket, <<suffix, suffix_len, id>>)}

\* The scan of a list of (suffix, len, id) entries: the first entry that is
\* a prefix of the query's suffix.
FirstPrefixEntry(entries, suffix, suffix_len) ==
    LET hits == {j \in 1..Len(entries) :
                    is_prefix(suffix, entries[j][1], suffix_len, entries[j][2])}
    IN  IF hits = {} THEN NONE
        ELSE Some(entries[Min(hits)][3], 8 + entries[Min(hits)][2])

\* Phase 2 of both variant B matchers: prefix = bytes_to_u64_le(data, 8),
\* then prefix &= MASKS[length] for length = maxlen down to 1, first hit.
ShortSearch16(lookup, buf, s, e, maxlen, padb) ==
    LET prefix == bytes_to_u64_le(buf, s, 8, padb)
        hits   == {l \in 1..MinOf(maxlen, e - s) :
                      <<MASKS(prefix, l), l>> \in DOMAIN lookup}
    IN  IF hits = {} THEN NONE
        ELSE Some(lookup[<<MASKS(prefix, Max(hits)), Max(hits)>>], Max(hits))

\* The lookup stops at the single-byte keys.
find_longest_match16_onebyte(m, buf, s, e, padb) ==
    ShortSearch16(m.dictionary, buf, s, e, 1, padb)

\* LongestPrefixMatcher16::find_longest_match(data = buf[s..e])
find_longest_match16(m, buf, s, e, padb) ==
    LET suffix_len == MinOf(e - s, 16) - 8
        prefix     == bytes_to_u64_le(buf, s, 8, padb)
        suffix     == bytes_to_u64_le(buf, s + 8, suffix_len, padb)
        long       == IF e - s > 8 /\ prefix \in DOMAIN m.buckets
                      THEN FirstPrefixEntry(m.buckets[prefix], suffix, suffix_len)
                      ELSE NONE
    IN  IF long.some THEN long
        ELSE ShortSearch16(m.dictionary, buf, s, e, 8, padb)

(* --------------------------- finalize --------------------------------- *)

ZeroWord == Rep(0, 8)

\* LongMatchInfo::default()
DefaultLongMatchInfo ==
    [prefix          |-> ZeroWord,
     inline_suffixes |-> Rep(ZeroWord, N_INLINE_SUFFIXES),
     inline_lengths  |-> Rep(0, N_INLINE_SUFFIXES),
     inline_ids      |-> Rep(0, N_INLINE_SUFFIXES),
     n_suffixes      |-> 0,
     offset          |-> 0,
     answer_id       |-> 0,
     answer_length   |-> 0]

\* The iteration order of a hash map: some order of its keys.
RECURSIVE KeyOrder(_)
KeyOrder(S) ==
    IF S = {} THEN <<>>
    ELSE LET k == CHOOSE x \in S : TRUE IN <<k>> \o KeyOrder(S \ {k})

\* self.find_longest_match(&prefix.to_le_bytes()): the dynamic matcher's
\* answer for the 8 bytes of a prefix.
PrefixAnswer(m, prefix) == find_longest_match16(m, prefix, 0, 8, 0)

\* The record finalize builds for one bucket (lines 128-157), the overflow
\* array holding n_before entries already.
BucketInfo(m, prefix, n_before) ==
    LET bucket == m.buckets[prefix]
        answer == PrefixAnswer(m, prefix)
        inl    == MinOf(N_INLINE_SUFFIXES, Len(bucket))
    IN  [prefix          |-> prefix,
         inline_suffixes |-> [i \in 1..N_INLINE_SUFFIXES |->
                                IF i <= inl THEN bucket[i][1] ELSE ZeroWord],
         inline_lengths  |-> [i \in 1..N_INLINE_SUFFIXES |->
                                IF i <= inl THEN bucket[i][2] ELSE 0],
         inline_ids      |-> [i \in 1..N_INLINE_SUFFIXES |->
                                IF i <= inl THEN bucket[i][3] ELSE 0],
         n_suffixes      |-> Len(bucket) % 65536,
         offset          |-> n_before % 65536,
         answer_id       |-> answer.id,
         answer_length   |-> answer.len % 256]

\* bucket.iter().skip(N_INLINE_SUFFIXES)
SkipInline(bucket) ==
    [i \in 1..(IF Len(bucket) > N_INLINE_SUFFIXES
               THEN Len(bucket) - N_INLINE_SUFFIXES ELSE 0) |->
        bucket[i + N_INLINE_SUFFIXES]]

\* The loop over self.buckets of finalize (lines 127-160), from entry i of
\* the iteration order: long_dictionary and long_buckets.
RECURSIVE FinalizeBuckets(_, _, _, _, _)
FinalizeBuckets(m, order, i, long_dictionary, long_buckets) ==
    IF i > Len(order)
    THEN [long_dictionary |-> long_dictionary, long_buckets |-> long_buckets]
    ELSE FinalizeBuckets(m, order, i + 1,
             MapPut(long_dictionary, order[i],
                    BucketInfo(m, order[i], Len(long_buckets))),
             long_buckets \o SkipInline(m.buckets[order[i]]))

\* The record of an 8-byte short key that no bucket shares (lines 170-179).
PromotedInfo(prefix, id) ==
    [DefaultLongMatchInfo EXCEPT !.prefix = prefix, !.answer_id = id,
                                 !.answer_length = 8]

\* The prefixes the perfect hash is built over: long_dictionary.keys().
RetainedPrefixes(m) ==
    (DOMAIN m.buckets) \cup {k[1] : k \in {x \in DOMAIN m.dictionary : x[2] = 8}}

\* finalize panics when a bucket's prefix has no match at all (the unwrap
\* of line 128).
FinalizePanics(m) == \E p \in DOMAIN m.buckets : ~PrefixAnswer(m, p).some

\* The perfect hash functions PtrHash::new may return for a set of keys,
\* remap being off, up to a renumbering of the slots: the keys take distinct
\* slots, h <= holes slots below them stay unused, and miss is the index
\* index_no_remap returns for a key outside the set: slot 0 (unused when
\* h > 0, and the one slot long_info has when there is no key), or an index
\* past the last slot.  The answers of the static matcher depend on the
\* hash only through which slots are used and whether miss is one of them.
PerfectHashes(keys, holes) ==
    LET n     == Cardinality(keys)
        order == KeyOrder(keys)
    IN  {[assign |-> [k \in keys |-> h + IndexOf(order, k) - 1], miss |-> i] :
            h \in 0..holes, i \in {0, n + holes}}

\* long_phf.index_no_remap(&prefix)
index_no_remap(phf, prefix) ==
    IF prefix \in DOMAIN phf.assign THEN phf.assign[prefix] ELSE phf.miss

\* LongestPrefixMatcher16::finalize, with the perfect hash PtrHash::new
\* returned.
finalize(m, phf) ==
    LET fb    == FinalizeBuckets(m, KeyOrder(DOMAIN m.buckets), 1, EmptyMap, <<>>)
        eight == {k \in DOMAIN m.dictionary :
                     k[2] = 8 /\ k[1] \notin DOMAIN fb.long_dictionary}
        long_dictionary ==
            [p \in RetainedPrefixes(m) |->
                IF p \in DOMAIN fb.long_dictionary THEN fb.long_dictionary[p]
                ELSE PromotedInfo(p, m.dictionary[<<p, 8>>])]
        short == {k \in DOMAIN m.dictionary : k[2] # 8}
        max   == Max({0} \cup {index_no_remap(phf, p) : p \in DOMAIN long_dictionary})
    IN  [short_dictionary |-> [k \in short |-> m.dictionary[k]],
         long_phf         |-> phf,
         long_info        |-> [i \in 1..(max + 1) |->
                                 IF \E p \in DOMAIN long_dictionary :
                                        index_no_remap(phf, p) = i - 1
                                 THEN long_dictionary[
                                        CHOOSE p \in DOMAIN long_dictionary :
                                            index_no_remap(phf, p) = i - 1]
                                 ELSE DefaultLongMatchInfo],
         long_buckets     |-> fb.long_buckets]

(* ------------------- StaticLongestPrefixMatcher16 --------------------- *)

\* StaticLongestPrefixMatcher16::compute_long_answer
compute_long_answer(st, prefix, suffix, suffix_len) ==
    LET index == index_no_remap(st.long_phf, prefix)
    IN  IF index >= Len(st.long_info) \/ prefix # st.long_info[index + 1].prefix
        THEN NONE
        ELSE LET long_info == st.long_info[index + 1]
                 n_inline  == MinOf(N_INLINE_SUFFIXES, long_info.n_suffixes)
                 inline    == FirstPrefixEntry(
                                  [i \in 1..n_inline |->
                                      <<long_info.inline_suffixes[i],
                                        long_info.inline_lengths[i],
                                        long_info.inline_ids[i]>>],
                                  suffix, suffix_len)
                 start     == long_info.offset
                 end       == start + long_info.n_suffixes - N_INLINE_SUFFIXES
                 overflow  == IF long_info.n_suffixes > N_INLINE_SUFFIXES
                              THEN FirstPrefixEntry(
                                       [i \in 1..(end - start) |->
                                           st.long_buckets[start + i]],
                                       suffix, suffix_len)
                              ELSE NONE
             IN  IF inline.some THEN inline
                 ELSE IF overflow.some THEN overflow
                 ELSE Some(long_info.answer_id, long_info.answer_length)

\* StaticLongestPrefixMatcher16::find_longest_match(data = buf[s..e])
static_find_longest_match(st, buf, s, e, padb) ==
    LET suffix_len == MinOf(e - s, 16) - 8
        prefix     == bytes_to_u64_le(buf, s, 8, padb)
        suffix     == bytes_to_u64_le(buf, s + 8, suffix_len, padb)
        long       == IF e - s >= 8
                      THEN compute_long_answer(st, prefix, suffix, suffix_len)
                      ELSE NONE
    IN  IF long.some THEN long
        ELSE ShortSearch16(st.short_dictionary, buf, s, e, 7, padb)

\* The value of the static_lpm variable while no static matcher exists.
NoStatic ==
    [short_dictionary |-> EmptyMap,
     long_phf         |-> [assign |-> EmptyMap, miss |-> 0],
     long_info        |-> <<>>,
     long_buckets     |-> <<>>]

inputVars ==
    <<variant, threshold, data, end_positions, shuffled_indices, scale,
      first_run>>

containerVars ==
    <<compressed_data, string_boundaries, dictionary, token_boundaries>>

localVars ==
    <<frequency, next_token_id, it, pos, previous_token_id, previous_length>>

compressorVars == <<inputVars, containerVars, localVars, calls, decoded>>

matcherVars == <<lpm, lpm16, static_lpm>>

vars == <<compressorVars, matcherVars, pc, accepted>>

NoRun == [runs |-> 0, perm |-> <<>>, containers |-> <<>>]

\* The scale of every run but those of the examples.
DefaultScale ==
    [bytes |-> NumBytes, max_id |-> MaxTokenId, bucket_cap |-> MAX_BUCKET_SIZE]

NoDecode == [op |-> "none", index |-> 0, size |-> 0, buffer |-> <<>>,
             read_end |-> 0, write_end |-> 0]

\* OnPair::new / OnPair16::new and nothing running.
IdleFields ==
    /\ threshold = 2 /\ data = <<>> /\ end_positions = <<0>>
    /\ shuffled_indices = <<>> /\ scale = DefaultScale /\ first_run = NoRun
    /\ compressed_data = <<>> /\ string_boundaries = <<>>
    /\ dictionary = <<>> /\ token_boundaries = <<>>
    /\ frequency = EmptyMap /\ next_token_id = NumBytes /\ it = 0 /\ pos = 0
    /\ previous_token_id = 0 /\ previous_length = 0
    /\ calls = 0 /\ decoded = NoDecode

IdleCompressor == variant = "A" /\ IdleFields

(* ----------------------- the matchers on their own --------------------- *)

\* Keys inserted at most into the trie matcher, the single-byte keys apart.
MaxInserts == 3

W(b) == Rep(b, 8)

\* The keys of more than one byte the matchers are driven with: short keys,
\* an 8-byte key, long keys that share an 8-byte prefix, long keys that are
\* prefixes of one another, and keys whose prefix is all zero bytes.
LongerKeys ==
    << <<0, 1>>, Rep(1, 7), W(1),
       W(1) \o <<0>>, W(1) \o <<1>>, W(1) \o <<0, 1>>, W(1) \o <<0, 1, 1>>,
       W(1) \o Rep(1, 8),
       W(0) \o <<1>>,
       W(1) \o <<0, 1, 1>> \o Rep(0, 6) >>

\* The id a key is inserted with: the byte for a single-byte key, as the
\* learners do, and a fresh id for every other key.
KeyId(key) ==
    IF Len(key) = 1 THEN key[1] ELSE NumBytes + IndexOf(LongerKeys, key) - 1

SingleKeys == {<<b>> : b \in Bytes}

KeyPool == {LongerKeys[i] : i \in 1..Len(LongerKeys)}

\* The keys LongestPrefixMatcher16 takes: 1..16 bytes.
KeyPool16 == {k \in KeyPool : Len(k) <= MAX_LENGTH}

\* The queries: the empty slice, every key, every key with one more byte,
\* and runs of one byte of 8 and 9 bytes.
Queries ==
    LET keys == KeyPool \cup SingleKeys
    IN  {<<>>} \cup keys \cup {k \o <<b>> : k \in keys, b \in Bytes}
            \cup {Rep(b, n) : b \in Bytes, n \in {8, 9}}

IsPrefixOf(k, q) == Len(k) <= Len(q) /\ \A i \in 1..Len(k) : k[i] = q[i]

\* The longest accepted key that is a prefix of q, as Some((id, len)), or
\* None: what find_longest_match is to return.
LongestAccepted(acc, q) ==
    LET cands == {a \in acc : IsPrefixOf(a.key, q)}
    IN  IF cands = {} THEN NONE
        ELSE LET best == CHOOSE a \in cands :
                             \A c \in cands : Len(c.key) <= Len(a.key)
             IN  Some(best.id, Len(best.key))

AcceptedKeys == {a.key : a \in accepted}

InitLpm ==
    /\ IdleCompressor
    /\ pc = "lpm"
    /\ lpm = NewLpm /\ lpm16 = NewLpm16 /\ static_lpm = NoStatic
    /\ accepted = {}

\* lpm.insert(key, id) on the trie matcher, key not inserted before.
LpmInsert ==
    /\ pc = "lpm"
    /\ Cardinality(accepted \ {a \in accepted : Len(a.key) = 1}) < MaxInserts
    /\ \E key \in KeyPool \ AcceptedKeys, padb \in Bytes :
          /\ lpm' = insert(lpm, key, 0, Len(key), KeyId(key), padb)
          /\ accepted' = accepted \cup {[key |-> key, id |-> KeyId(key)]}
    /\ UNCHANGED <<compressorVars, lpm16, static_lpm, pc>>

\* The loop of train_dictionary that inserts the single-byte keys.
RECURSIVE InsertSingles(_, _)
InsertSingles(m, i) ==
    IF i >= scale.bytes THEN m
    ELSE InsertSingles(insert(m, <<i>>, 0, 1, i, 0), i + 1)

SinglesAccepted == {[key |-> <<b>>, id |-> b] : b \in Bytes}

LpmInsertSingles ==
    /\ pc = "lpm"
    /\ ~(SingleKeys \subseteq AcceptedKeys)
    /\ lpm' = InsertSingles(lpm, 0)
    /\ accepted' = accepted \cup SinglesAccepted
    /\ UNCHANGED <<compressorVars, lpm16, static_lpm, pc>>

NextLpm == LpmInsert \/ LpmInsertSingles

SpecLpm == InitLpm /\ [][NextLpm]_vars

\* Unused slots the perfect hash may leave below its largest index.
MaxHoles == 1

\* Keys inserted at most into the bucketed matcher, the single-byte keys
\* apart.
MaxInserts16 == 5

InitLpm16 == InitLpm

\* lpm.insert(key, id) on the bucketed matcher, key not inserted before;
\* a refused key is not recorded.
Lpm16Insert ==
    /\ pc = "lpm"
    /\ Cardinality(accepted \ {a \in accepted : Len(a.key) = 1}) < MaxInserts16
    /\ \E key \in KeyPool16 \ AcceptedKeys, padb \in Bytes :
          \E o \in insert16(lpm16, key, 0, Len(key), KeyId(key), padb) :
              /\ lpm16' = o.lpm
              /\ accepted' = IF o.added
                             THEN accepted \cup {[key |-> key, id |-> KeyId(key)]}
                             ELSE accepted
    /\ UNCHANGED <<compressorVars, lpm, static_lpm, pc>>

\* The loop of train_dictionary that inserts the single-byte keys; an
\* insert of a key of at most 8 bytes has one outcome.
RECURSIVE InsertSingles16(_, _)
InsertSingles16(m, i) ==
    IF i >= scale.bytes THEN m
    ELSE InsertSingles16((CHOOSE o \in insert16(m, <<i>>, 0, 1, i, 0) : TRUE).lpm,
                         i + 1)

Lpm16InsertSingles ==
    /\ pc = "lpm"
    /\ ~(SingleKeys \subseteq AcceptedKeys)
    /\ lpm16' = InsertSingles16(lpm16, 0)
    /\ accepted' = accepted \cup SinglesAccepted
    /\ UNCHANGED <<compressorVars, lpm, static_lpm, pc>>

\* lpm.finalize() on a matcher that holds the single-byte keys.
Lpm16Finalize ==
    /\ pc = "lpm"
    /\ SingleKeys \subseteq AcceptedKeys
    /\ ~FinalizePanics(lpm16)
    /\ \E phf \in PerfectHashes(RetainedPrefixes(lpm16), MaxHoles) :
          static_lpm' = finalize(lpm16, phf)
    /\ pc' = "static"
    /\ UNCHANGED <<compressorVars, lpm, lpm16, accepted>>

NextLpm16 == Lpm16Insert \/ Lpm16InsertSingles \/ Lpm16Finalize

SpecLpm16 == InitLpm16 /\ [][NextLpm16]_vars

(* --------------------------- the compressors --------------------------- *)

\* Strings of a collection at most.
MaxStrings == 2

\* Length of the longest string of a collection.
MaxStrLen == 63

\* compress_bytes calls on one instance at most.
MaxCalls == 2

\* Iterations of the parse loop that consume no byte, after which the model
\* stops following the loop.
StallLimit == 2

\* The longest collection of which the shuffle takes every order.
MaxShuffled == 3

\* The strings collections are made of: the empty string, runs of one byte
\* value (8 zero bytes, MaxStrLen bytes of value 1), a string of mixed
\* bytes, and one that shares its first 8 bytes with a run.
StringPool ==
    << <<>>, Rep(0, 8), Rep(1, MaxStrLen), <<0, 1, 0, 1, 0, 1>>,
       W(1) \o <<0, 1, 0, 1>> >>

\* The collections compress_bytes is called with: up to MaxStrings strings
\* of the pool, in the order of the pool (the shuffle gives training every
\* order).
Collections ==
    UNION {{[i \in 1..n |-> StringPool[f[i]]] :
              f \in {g \in [1..n -> 1..Len(StringPool)] :
                        \A i \in 1..(n - 1) : g[i] <= g[i + 1]}} :
           n \in 0..MaxStrings}

\* flatten_strings: the flat data and the prefix sums of the lengths.
RECURSIVE FlattenData(_)
FlattenData(strings) ==
    IF strings = <<>> THEN <<>>
    ELSE FlattenData(SubSeq(strings, 1, Len(strings) - 1))
             \o strings[Len(strings)]

EndPositions(strings) ==
    [i \in 1..(Len(strings) + 1) |-> Len(FlattenData(SubSeq(strings, 1, i - 1)))]

\* The orders shuffle may leave 0..n-1 in.
Permutations0(n) ==
    {p \in [1..n -> 0..(n - 1)] : \A i, j \in 1..n : i # j => p[i] # p[j]}

\* The orders that start anywhere and go round.
Rotations0(n) == {[i \in 1..n |-> (i - 1 + k) % n] : k \in 0..(n - 1)}

\* The orders of the shuffle the runs take: every order of up to
\* MaxShuffled strings, and the rotations of a longer collection.
Shuffles(n) == IF n <= MaxShuffled THEN Permutations0(n) ELSE Rotations0(n)

RECURSIVE FloorLog2(_)
FloorLog2(n) == IF n <= 1 THEN 0 ELSE 1 + FloorLog2(n \div 2)

\* (data.len() as f64 / (1024.0 * 1024.0)).log2().max(2.0) as u16
ThresholdA(data_len) ==
    IF data_len < 4 * 1048576 THEN 2
    ELSE LET exact == FloorLog2(data_len) - 20 IN IF exact < 2 THEN 2 ELSE exact

\* A fresh instance (OnPair::new, OnPair16::new(threshold)) and the
\* arguments the caller has for compress_bytes.
FreshInstance(strings, sc) ==
    /\ data = FlattenData(strings)
    /\ end_positions = EndPositions(strings)
    /\ scale = sc /\ first_run = NoRun
    /\ shuffled_indices = <<>>
    /\ compressed_data = <<>> /\ string_boundaries = <<>>
    /\ dictionary = <<>> /\ token_boundaries = <<>>
    /\ frequency = EmptyMap /\ next_token_id = sc.bytes /\ it = 0 /\ pos = 0
    /\ previous_token_id = 0 /\ previous_length = 0
    /\ lpm = NewLpm /\ lpm16 = NewLpm16 /\ static_lpm = NoStatic
    /\ pc = "new" /\ calls = 0 /\ decoded = NoDecode
    /\ accepted = {}

InitWith(collections) ==
    /\ variant \in {"A", "B"}
    /\ threshold \in (IF variant = "A" THEN {2} ELSE 2..MaxThreshold)
    /\ \E strings \in collections : FreshInstance(strings, DefaultScale)

Singles == [i \in 1..scale.bytes |-> i - 1]

AfterString_first(i, n) == "trained"

\* The place after the for loop over the strings took string number i:
\* the loop goes on, or is over.
AfterString(i, n) == IF i + 1 < n THEN "train" ELSE "trained"

\* compress_bytes, up to the for loop of train_dictionary (onpair.rs 52-53
\* and 67-91, onpair16.rs 62-63 and 78-98), perm being the order the
\* shuffle left.
CompressBytes(perm) ==
    /\ calls' = calls + 1
    /\ shuffled_indices' = perm
    /\ token_boundaries' =
           Append(token_boundaries, 0)
               \o [i \in 1..scale.bytes |-> Len(dictionary) + i]
    /\ dictionary' = dictionary \o Singles
    /\ frequency' = EmptyMap
    /\ next_token_id' = scale.bytes
    /\ lpm' = IF variant = "A" THEN InsertSingles(NewLpm, 0) ELSE lpm
    /\ lpm16' = IF variant = "B" THEN InsertSingles16(NewLpm16, 0) ELSE lpm16
    /\ threshold' = IF variant = "A" THEN ThresholdA(Len(data)) ELSE threshold
    /\ it' = 0 /\ pos' = 0 /\ previous_token_id' = 0 /\ previous_length' = 0
    /\ pc' = IF Len(perm) = 0 THEN "trained" ELSE "train"
    /\ decoded' = NoDecode
    /\ UNCHANGED <<variant, data, end_positions, scale, first_run,
                   compressed_data,
                   string_boundaries, static_lpm, accepted>>

\* compress_bytes on a fresh instance.
Compress ==
    /\ pc = "new"
    /\ \E perm \in Shuffles(Len(end_positions) - 1) : CompressBytes(perm)

\* compress_bytes once more, with the same arguments, on an instance that
\* holds the result of an earlier call.
CompressAgain ==
    /\ pc = "done" /\ calls < MaxCalls
    /\ \E perm \in Shuffles(Len(end_positions) - 1) : CompressBytes(perm)

\* The matcher train_dictionary works with.
TrainFind(buf, s, e, padb) ==
    IF variant = "A" THEN find_longest_match(lpm, buf, s, e, padb)
    ELSE find_longest_match16(lpm16, buf, s, e, padb)

\* One turn of the for loop over shuffled_indices, up to the while loop
\* (onpair.rs 91-103, onpair16.rs 98-110).
TrainString ==
    /\ pc = "train"
    /\ LET index == shuffled_indices[it + 1]
           start == end_positions[index + 1]
           end   == end_positions[index + 2]
           n     == Len(shuffled_indices)
       IN  IF start = end
           THEN /\ it' = it + 1
                /\ pc' = AfterString(it, n)
                /\ UNCHANGED <<pos, previous_token_id, previous_length>>
           ELSE \E padb \in Bytes :
                  LET m == TrainFind(data, start, end, padb)
                  IN  IF ~m.some
                      THEN /\ pc' = "panic"
                           /\ UNCHANGED <<it, pos, previous_token_id,
                                          previous_length>>
                      ELSE /\ previous_token_id' = m.id
                           /\ previous_length' = m.len
                           /\ pos' = start + m.len
                           /\ IF start + m.len < end
                              THEN pc' = "pair" /\ it' = it
                              ELSE pc' = AfterString(it, n) /\ it' = it + 1
    /\ UNCHANGED <<inputVars, containerVars, frequency, next_token_id,
                   matcherVars, calls, decoded, accepted>>

\* The counter of a pair seen for the first time starts at 1, not 0.
Bump_fromone(freq, key) ==
    MapPut(freq, key, ((IF key \in DOMAIN freq THEN freq[key] ELSE 1) + 1) % 65536)

\* *frequency.entry(key).or_insert(0) += 1 on a u16 counter
Bump(freq, key) ==
    MapPut(freq, key, ((IF key \in DOMAIN freq THEN freq[key] ELSE 0) + 1) % 65536)

\* next_token_id += 1 on the token id type
NextId(id) == (id + 1) % (scale.max_id + 1)

\* The loop is never left for a full vocabulary.
VocabularyFull_never(id) == FALSE

\* if next_token_id == u16::MAX { break 'outer; }
VocabularyFull(id) == id = scale.max_id

\* One turn of the while loop of OnPair::train_dictionary (105-134).
TrainPairA ==
    /\ pc = "pair" /\ variant = "A"
    /\ LET index == shuffled_indices[it + 1]
           end   == end_positions[index + 2]
           n     == Len(shuffled_indices)
       IN  \E padb \in Bytes :
             LET m    == find_longest_match(lpm, data, pos, end, padb)
                 key  == <<previous_token_id, m.id>>
                 freq == Bump(frequency, key)
             IN  IF ~m.some
                 THEN /\ pc' = "panic"
                      /\ UNCHANGED <<frequency, lpm, dictionary, token_boundaries,
                                     next_token_id, previous_token_id,
                                     previous_length, pos, it>>
                 ELSE IF freq[key] >= threshold
                 THEN /\ lpm' = insert(lpm, data, pos - previous_length,
                                       pos + m.len, next_token_id, padb)
                      /\ dictionary' = dictionary \o
                             Slice(data, pos - previous_length, pos + m.len)
                      /\ token_boundaries' =
                             Append(token_boundaries, Len(dictionary'))
                      /\ frequency' = MapRemove(freq, key)
                      /\ previous_token_id' = next_token_id
                      /\ previous_length' = previous_length + m.len
                      /\ IF VocabularyFull(next_token_id)
                         THEN /\ pc' = "trained"
                              /\ UNCHANGED <<next_token_id, pos, it>>
                         ELSE /\ next_token_id' = NextId(next_token_id)
                              /\ pos' = pos + m.len
                              /\ IF pos' < end
                                 THEN pc' = "pair" /\ it' = it
                                 ELSE pc' = AfterString(it, n) /\ it' = it + 1
                 ELSE /\ frequency' = freq
                      /\ previous_token_id' = m.id
                      /\ previous_length' = m.len
                      /\ pos' = pos + m.len
                      /\ IF pos' < end
                         THEN pc' = "pair" /\ it' = it
                         ELSE pc' = AfterString(it, n) /\ it' = it + 1
                      /\ UNCHANGED <<lpm, dictionary, token_boundaries,
                                     next_token_id>>
    /\ UNCHANGED <<inputVars, compressed_data, string_boundaries, lpm16,
                   static_lpm, calls, decoded, accepted>>

\* The pair is merged whatever the length of the merged token.
WithinMaxLength_always(match_length, prev_length) == TRUE

\* if match_length + previous_length <= MAX_LENGTH
WithinMaxLength(match_length, prev_length) ==
    match_length + prev_length <= MAX_LENGTH

\* One turn of the while loop of OnPair16::train_dictionary (112-147).
TrainPairB ==
    /\ pc = "pair" /\ variant = "B"
    /\ LET index == shuffled_indices[it + 1]
           end   == end_positions[index + 2]
           n     == Len(shuffled_indices)
       IN  \E padb \in Bytes :
             LET m     == find_longest_match16(lpm16, data, pos, end, padb)
                 key   == <<previous_token_id, m.id>>
                 fits  == WithinMaxLength(m.len, previous_length)
                 freq  == IF fits THEN Bump(frequency, key) ELSE frequency
                 merge == fits /\ freq[key] >= threshold
             IN  IF ~m.some
                 THEN /\ pc' = "panic"
                      /\ UNCHANGED <<frequency, lpm16, dictionary,
                                     token_boundaries, next_token_id,
                                     previous_token_id, previous_length, pos, it>>
                 ELSE \E o \in (IF merge
                                THEN insert16(lpm16, data, pos - previous_length,
                                              pos + m.len, next_token_id, padb)
                                ELSE {[lpm |-> lpm16, added |-> FALSE]}) :
                        /\ lpm16' = o.lpm
                        /\ IF o.added
                           THEN /\ dictionary' = dictionary \o
                                       Slice(data, pos - previous_length,
                                             pos + m.len)
                                /\ token_boundaries' =
                                       Append(token_boundaries, Len(dictionary'))
                                /\ frequency' = MapRemove(freq, key)
                                /\ previous_token_id' = next_token_id
                                /\ previous_length' = previous_length + m.len
                                /\ IF VocabularyFull(next_token_id)
                                   THEN /\ pc' = "trained"
                                        /\ UNCHANGED <<next_token_id, pos, it>>
                                   ELSE /\ next_token_id' = NextId(next_token_id)
                                        /\ pos' = pos + m.len
                                        /\ IF pos' < end
                                           THEN pc' = "pair" /\ it' = it
                                           ELSE /\ pc' = AfterString(it, n)
                                                /\ it' = it + 1
                           ELSE /\ frequency' = freq
                                /\ previous_token_id' = m.id
                                /\ previous_length' = m.len
                                /\ pos' = pos + m.len
                                /\ IF pos' < end
                                   THEN pc' = "pair" /\ it' = it
                                   ELSE pc' = AfterString(it, n) /\ it' = it + 1
                                /\ UNCHANGED <<dictionary, token_boundaries,
                                               next_token_id>>
    /\ UNCHANGED <<inputVars, compressed_data, string_boundaries, lpm,
                   static_lpm, calls, decoded, accepted>>

\* parse_data up to its for loop: self.string_boundaries.push(0).
ParseBegin ==
    /\ string_boundaries' = Append(string_boundaries, 0)
    /\ it' = 0
    /\ pc' = IF Len(end_positions) > 1 THEN "parse" ELSE "done"
    /\ UNCHANGED <<inputVars, compressed_data, dictionary, token_boundaries,
                   frequency, next_token_id, pos, previous_token_id,
                   previous_length, calls, decoded, accepted>>

\* OnPair::compress_bytes between train_dictionary and the loop of
\* parse_data (onpair.rs 53-54, 137, 145).
TrainReturnA ==
    /\ pc = "trained" /\ variant = "A"
    /\ ParseBegin
    /\ UNCHANGED matcherVars

\* OnPair16::compress_bytes between train_dictionary and the loop of
\* parse_data: lpm.finalize(), with the perfect hash PtrHash::new built
\* (onpair16.rs 63-65, 150, 158).
FinalizeB ==
    /\ pc = "trained" /\ variant = "B"
    /\ \E phf \in PerfectHashes(RetainedPrefixes(lpm16), MaxHoles) :
          static_lpm' = finalize(lpm16, phf)
    /\ ParseBegin
    /\ UNCHANGED <<lpm, lpm16>>

\* The matcher parse_data works with.
ParseFind(buf, s, e, padb) ==
    IF variant = "A" THEN find_longest_match(lpm, buf, s, e, padb)
    ELSE static_find_longest_match(static_lpm, buf, s, e, padb)

\* The place after the for loop of parse_data took window number i.
AfterWindow(i) == IF i + 2 < Len(end_positions) THEN "parse" ELSE "done"

\* One turn of the for loop over end_positions.windows(2), up to the while
\* loop (onpair.rs 147-156, onpair16.rs 160-169).
ParseString ==
    /\ pc = "parse"
    /\ LET start == end_positions[it + 1]
           end   == end_positions[it + 2]
       IN  IF start = end
           THEN /\ string_boundaries' =
                       Append(string_boundaries, Len(compressed_data))
                /\ it' = it + 1
                /\ pc' = AfterWindow(it)
                /\ pos' = pos
           ELSE /\ pos' = start
                /\ pc' = "scan"
                /\ UNCHANGED <<string_boundaries, it>>
    /\ UNCHANGED <<inputVars, compressed_data, dictionary, token_boundaries,
                   frequency, next_token_id, previous_token_id,
                   previous_length, matcherVars, calls, decoded, accepted>>

\* Token ids pushed for the string the parse loop is in.
EmittedForCurrent ==
    Len(compressed_data) - string_boundaries[Len(string_boundaries)]

\* One turn of the while loop of parse_data (onpair.rs 157-164,
\* onpair16.rs 170-177), with the push that follows the loop when it ends.
ParseToken ==
    /\ pc = "scan"
    /\ LET start == end_positions[it + 1]
           end   == end_positions[it + 2]
       IN  /\ EmittedForCurrent < (end - start) + StallLimit
           /\ \E padb \in Bytes :
                LET m == ParseFind(data, pos, end, padb)
                IN  IF ~m.some
                    THEN /\ pc' = "panic"
                         /\ UNCHANGED <<compressed_data, string_boundaries,
                                        pos, it>>
                    ELSE /\ compressed_data' = Append(compressed_data, m.id)
                         /\ pos' = pos + m.len
                         /\ IF pos' < end
                            THEN /\ pc' = "scan"
                                 /\ UNCHANGED <<string_boundaries, it>>
                            ELSE /\ string_boundaries' =
                                        Append(string_boundaries,
                                               Len(compressed_data'))
                                 /\ it' = it + 1
                                 /\ pc' = AfterWindow(it)
    /\ UNCHANGED <<inputVars, dictionary, token_boundaries, frequency,
                   next_token_id, previous_token_id, previous_length,
                   matcherVars, calls, decoded, accepted>>

(* ------------------------------ decoding ------------------------------ *)

\* A byte of the caller's buffer nothing was written to.
Unwritten == -1

\* A byte read from past the end of the dictionary arena: whatever the
\* memory there holds.
Junk == -2

\* copy_nonoverlapping(src, dst, n): n bytes of the arena from offset src,
\* to offset dst of the buffer.  A write past the end of the buffer changes
\* no byte of it.
FastCopy(buffer, dst, src, n) ==
    [i \in 1..Len(buffer) |->
        IF dst < i /\ i <= dst + n
        THEN (IF src + (i - dst) <= Len(dictionary)
              THEN dictionary[src + (i - dst)] ELSE Junk)
        ELSE buffer[i]]

\* Every token is copied as one stride of 16 bytes.
CopyLength_onestride(token_len) == FAST_COPY_SIZE

\* Every token is copied as two strides of 16 bytes.
CopyLength_twostrides(token_len) == 2 * FAST_COPY_SIZE

\* OnPair::decompress_token (199-219) / the loop body of
\* OnPair16::decompress_string and decompress_all (198-211, 230-242): the
\* number of bytes one token of token_len bytes is copied with.
CopyLength(token_len) ==
    IF variant = "B" THEN MAX_LENGTH
    ELSE IF token_len > FAST_COPY_SIZE THEN token_len
    ELSE FAST_COPY_SIZE

\* The token is taken to start where it ends.
TokenStart_next(token_id) == token_boundaries[token_id + 2]

TokenStart(token_id) == token_boundaries[token_id + 1]

TokenLen(token_id) == token_boundaries[token_id + 2] - token_boundaries[token_id + 1]

\* The loop over the token ids ids[k..] of decompress_string and
\* decompress_all: the size returned, the buffer, and how far the copies
\* read in the arena and wrote in the buffer.
RECURSIVE DecodeTokens(_, _, _)
DecodeTokens(ids, k, st) ==
    IF k > Len(ids) THEN st
    ELSE LET id == ids[k]
             n  == CopyLength(TokenLen(id))
         IN  DecodeTokens(ids, k + 1,
                 [size      |-> st.size + TokenLen(id),
                  buffer    |-> FastCopy(st.buffer, st.size, TokenStart(id), n),
                  read_end  |-> IF TokenStart(id) + n > st.read_end
                                THEN TokenStart(id) + n ELSE st.read_end,
                  write_end |-> IF st.size + n > st.write_end
                                THEN st.size + n ELSE st.write_end])

Decode(ids, buffer_len) ==
    DecodeTokens(ids, 1, [size |-> 0, buffer |-> Rep(Unwritten, buffer_len),
                          read_end |-> 0, write_end |-> 0])

\* Length of input string number index, and of the longest one.
StringLen(index) == end_positions[index + 2] - end_positions[index + 1]

MaxStringLen == Max({0} \cup {StringLen(i) : i \in 0..(Len(end_positions) - 2)})

\* decompress_string(index, buffer), the buffer being of the least length
\* the contract allows, max string length + 16, or extra bytes longer.
DecompressString(index, extra) ==
    /\ pc = "done" /\ calls = 1
    /\ index \in 0..(Len(end_positions) - 2)
    /\ LET string_start == string_boundaries[index + 1]
           string_end   == string_boundaries[index + 2]
           r == Decode(Slice(compressed_data, string_start, string_end),
                       MaxStringLen + FAST_COPY_SIZE + extra)
       IN  decoded' = [op |-> "string", index |-> index, size |-> r.size,
                       buffer |-> r.buffer, read_end |-> r.read_end,
                       write_end |-> r.write_end]
    /\ UNCHANGED <<inputVars, containerVars, localVars, matcherVars, pc,
                   calls, accepted>>

\* decompress_all(buffer), the buffer being of total length + 16 bytes.
DecompressAll ==
    /\ pc = "done" /\ calls = 1
    /\ LET r == Decode(compressed_data, Len(data) + FAST_COPY_SIZE)
       IN  decoded' = [op |-> "all", index |-> 0, size |-> r.size,
                       buffer |-> r.buffer, read_end |-> r.read_end,
                       write_end |-> r.write_end]
    /\ UNCHANGED <<inputVars, containerVars, localVars, matcherVars, pc,
                   calls, accepted>>

Decompress ==
    \/ \E index \in 0..(MaxStrings - 1), extra \in 0..1 :
           DecompressString(index, extra)
    \/ DecompressAll

Next ==
    \/ Compress
    \/ TrainString
    \/ TrainPairA
    \/ TrainPairB
    \/ TrainReturnA
    \/ FinalizeB
    \/ ParseString
    \/ ParseToken
    \/ Decompress

Init == InitWith(Collections)

Spec == Init /\ [][Next]_vars

\* std::mem::size_of::<usize>() on the 64-bit targets the u64 loads of the
\* matchers are written for.
SIZE_OF_USIZE == 8

\* OnPair::space_used / OnPair16::space_used.
space_used ==
    Len(compressed_data) * 2
        + Len(dictionary)
        + Len(token_boundaries) * (IF variant = "A" THEN SIZE_OF_USIZE ELSE 4)

\* Two runs on the same arguments with the same shuffle order.  RunAgain
\* keeps the order and the containers of the run that has returned and
\* takes a fresh instance; CompressSame is compress_bytes on it, the
\* shuffle leaving the order of the first run.
RunAgain ==
    /\ pc = "done" /\ first_run = NoRun
    /\ first_run' = [runs |-> 1, perm |-> shuffled_indices,
                     containers |-> containerVars]
    /\ shuffled_indices' = <<>>
    /\ compressed_data' = <<>> /\ string_boundaries' = <<>>
    /\ dictionary' = <<>> /\ token_boundaries' = <<>>
    /\ frequency' = EmptyMap /\ next_token_id' = scale.bytes
    /\ it' = 0 /\ pos' = 0
    /\ previous_token_id' = 0 /\ previous_length' = 0
    /\ lpm' = NewLpm /\ lpm16' = NewLpm16 /\ static_lpm' = NoStatic
    /\ pc' = "new" /\ calls' = 0 /\ decoded' = NoDecode
    /\ UNCHANGED <<variant, threshold, data, end_positions, scale, accepted>>

CompressFirst == first_run = NoRun /\ Compress

CompressSame_anyorder ==
    /\ pc = "new" /\ first_run # NoRun
    /\ \E perm \in Shuffles(Len(end_positions) - 1) : CompressBytes(perm)

CompressSame ==
    /\ pc = "new" /\ first_run # NoRun
    /\ CompressBytes(first_run.perm)

NextTwin ==
    \/ CompressFirst
    \/ CompressSame
    \/ TrainString
    \/ TrainPairA
    \/ TrainPairB
    \/ TrainReturnA
    \/ FinalizeB
    \/ ParseString
    \/ ParseToken
    \/ RunAgain

SpecTwin == Init /\ [][NextTwin]_vars

\* The collections of the examples: one run of 18 equal bytes, given to
\* variant B with every threshold, ten copies of "user_000001", given to
\* variant A, and one string that overflows a bucket of variant B.
\* UserString numbers the seven byte values of that string
\* in the order they appear: u, s, e, r, _, 0, 1.
RunString == Rep(1, 18)

UserString == <<0, 1, 2, 3, 4, 5, 5, 5, 5, 5, 6>>

TenCopies == [i \in 1..10 |-> UserString]

\* The token id that stands for u16::MAX in the run on TenCopies.
ScenarioMaxTokenId == 31

ScenarioScale ==
    [bytes |-> 7, max_id |-> ScenarioMaxTokenId,
     bucket_cap |-> MAX_BUCKET_SIZE]

\* A string on which variant B, with threshold 2, trains the tokens 1^16
\* and 1^9, both in the bucket of the prefix 1^8, and then meets twice the
\* pair that makes 1^9 0, a third token for that bucket and after it the
\* pair once more.  OverflowBucketCap stands for MAX_BUCKET_SIZE in the
\* run on it, so that a bucket overflows after a few merges and not
\* after more than 128.
OverflowString ==
    Rep(1, 24) \o <<0, 0>> \o Rep(1, 25) \o <<0, 0>> \o Rep(1, 9) \o <<0>>
        \o Rep(1, 9) \o <<0>>

OverflowBucketCap == 1

OverflowScale ==
    [bytes |-> NumBytes, max_id |-> ScenarioMaxTokenId,
     bucket_cap |-> OverflowBucketCap]

InitScenario ==
    \/ /\ variant = "B" /\ threshold \in 2..MaxThreshold
       /\ FreshInstance(<<RunString>>, DefaultScale)
    \/ /\ variant = "A" /\ threshold = 2
       /\ FreshInstance(TenCopies, ScenarioScale)
    \/ /\ variant = "B" /\ threshold = 2
       /\ FreshInstance(<<OverflowString>>, OverflowScale)

SpecScenario == InitScenario /\ [][Next]_vars

\* Every run of the model on a fresh instance: the collections of the pool
\* and those of the examples.
InitRuns == Init \/ InitScenario

SpecRuns == InitRuns /\ [][Next]_vars

\* Bytes of data at most when an instance is used for more than one call.
MaxReuseBytes == 8

InitReuse ==
    InitWith({c \in Collections : Len(FlattenData(c)) <= MaxReuseBytes})

NextReuse == Next \/ CompressAgain

SpecReuse == InitReuse /\ [][NextReuse]_vars

(* ------------------- inserting a key more than once ------------------- *)

\* Distinct keys inserted at most.
MaxIdemKeys == 2

\* The keys inserted: one of 2 bytes, one of 8, and longer ones that share
\* their first 8 bytes; the key of 17 bytes goes to the trie matcher only.
IdemKeys ==
    {k \in { <<0, 1>>, W(1), W(1) \o <<0>>, W(1) \o <<0, 1>>,
             W(1) \o <<0, 1, 1>> \o Rep(0, 6) } :
        variant = "A" \/ Len(k) <= MAX_LENGTH}

\* A matcher of either kind, empty.
InitIdem ==
    /\ variant \in {"A", "B"} /\ IdleFields
    /\ pc = "idem"
    /\ lpm = NewLpm /\ lpm16 = NewLpm16 /\ static_lpm = NoStatic
    /\ accepted = {}

\* The matcher of the instance's kind after insert(key, id), and the value
\* the call returned (the trie's insert returns nothing: TRUE).
InsertOutcomes(m, m16, key) ==
    IF variant = "A"
    THEN {[lpm   |-> insert(m, key, 0, Len(key), KeyId(key), padb),
           lpm16 |-> m16, added |-> TRUE] : padb \in Bytes}
    ELSE {[lpm |-> m, lpm16 |-> o.lpm, added |-> o.added] :
             o \in UNION {insert16(m16, key, 0, Len(key), KeyId(key), padb) :
                             padb \in Bytes}}

\* insert(key, id) of a key not inserted before; a refused key is not
\* recorded.
IdemInsert ==
    /\ pc = "idem"
    /\ Cardinality(accepted) < MaxIdemKeys
    /\ \E key \in IdemKeys \ AcceptedKeys :
          \E o \in InsertOutcomes(lpm, lpm16, key) :
              /\ lpm' = o.lpm /\ lpm16' = o.lpm16
              /\ accepted' = IF o.added
                             THEN accepted \cup {[key |-> key, id |-> KeyId(key)]}
                             ELSE accepted
    /\ UNCHANGED <<compressorVars, static_lpm, pc>>

\* insert(key, id) once more, of the one (key, id) inserted so far.
IdemReinsert ==
    /\ pc = "idem"
    /\ Cardinality(accepted) = 1
    /\ \E a \in accepted :
          \E o \in InsertOutcomes(lpm, lpm16, a.key) :
              lpm' = o.lpm /\ lpm16' = o.lpm16
    /\ UNCHANGED <<compressorVars, static_lpm, pc, accepted>>

NextIdem == IdemInsert \/ IdemReinsert

SpecIdem == InitIdem /\ [][NextIdem]_vars

\* The matchers with every recorded key inserted once, in the order keys.
RECURSIVE InsertedOnce(_, _)
InsertedOnce(keys, i) ==
    IF i = 0 THEN [lpm |-> NewLpm, lpm16 |-> NewLpm16]
    ELSE LET before == InsertedOnce(keys, i - 1)
             o == CHOOSE x \in InsertOutcomes(before.lpm, before.lpm16, keys[i]) :
                      TRUE
         IN  [lpm |-> o.lpm, lpm16 |-> o.lpm16]

\* What find_longest_match answers for q on the matcher of the instance's
\* kind.
FindOn(m, m16, q, padb) ==
    IF variant = "A" THEN find_longest_match(m, q, 0, Len(q), padb)
    ELSE find_longest_match16(m16, q, 0, Len(q), padb)

(* ----------------------------- properties ----------------------------- *)

\* The bytes of input string number index.
InputString(index) ==
    Slice(data, end_positions[index + 1], end_positions[index + 2])

NonDecreasing(seq) == \A i \in 1..(Len(seq) - 1) : seq[i] <= seq[i + 1]

\* The token ids stored for input string number index.
StringTokens(index) ==
    Slice(compressed_data, string_boundaries[index + 1],
          string_boundaries[index + 2])

RECURSIVE SumTokenLens(_)
SumTokenLens(ids) ==
    IF ids = <<>> THEN 0
    ELSE TokenLen(ids[1]) + SumTokenLens(SubSeq(ids, 2, Len(ids)))

\* The last decompress_string call returned the length of the string asked
\* for and left its bytes at the front of the buffer.
RoundTrip ==
    decoded.op = "string" =>
        /\ decoded.size = StringLen(decoded.index)
        /\ SubSeq(decoded.buffer, 1, StringLen(decoded.index))
               = InputString(decoded.index)

\* The ids of the tokens the dictionary holds.
TokenIds == 0..(Len(token_boundaries) - 2)

\* C1: variant A round trip.  After compress_bytes on a fresh OnPair, for
\* every collection and every order the shuffle leaves, no lookup of
\* training or parsing fails, and decompress_string(i, buffer), with a
\* buffer of max string length + 16 bytes, returns the length of string i
\* and leaves the bytes of string i at the front of the buffer.
C1_RoundTripA == variant = "A" => (pc # "panic" /\ RoundTrip)

\* A string of more than 16 bytes, stored as fewer tokens than bytes, one of
\* them longer than 16 bytes, was decoded by variant A.
C1_Witness ==
    /\ variant = "A" /\ decoded.op = "string"
    /\ decoded.size > FAST_COPY_SIZE
    /\ Len(StringTokens(decoded.index)) < decoded.size
    /\ \E k \in 1..Len(StringTokens(decoded.index)) :
           TokenLen(StringTokens(decoded.index)[k]) > FAST_COPY_SIZE

\* C2: variant B round trip.  After compress_bytes on a fresh OnPair16, for
\* every threshold, collection (runs of zero bytes included) and order of
\* the shuffle: no lookup fails, every turn of the parse loop consumes at
\* least one byte (so the call completes), and decompress_string returns
\* the length of string i and leaves its bytes at the front of the buffer.
C2_RoundTripB ==
    variant = "B" =>
        /\ pc # "panic"
        /\ pc = "scan" => EmittedForCurrent <= pos - end_positions[it + 1]
        /\ RoundTrip

\* C6: coverage and token count, both variants.  The token ids stored for a
\* string of L bytes number 0 when L = 0 and 1..L otherwise, while the
\* string is parsed as well as after the call; the lengths of its tokens
\* sum to L; every lookup of the parser returns a match.
C6_TokenCount ==
    /\ pc # "panic"
    /\ pc = "scan" => EmittedForCurrent <= StringLen(it)
    /\ pc = "done" =>
           \A s \in 0..(Len(end_positions) - 2) :
               LET n == Len(StringTokens(s))
                   L == StringLen(s)
               IN  /\ L = 0 => n = 0
                   /\ L > 0 => n \in 1..L
                   /\ SumTokenLens(StringTokens(s)) = L

\* C7: variant B length bound.  At every point of training and after it
\* every token of the dictionary is 1..16 bytes long, and every token id
\* the parser stored is the id of such a token.
C7_LengthBoundB ==
    variant = "B" =>
        /\ \A i \in TokenIds : TokenLen(i) \in 1..MAX_LENGTH
        /\ \A k \in 1..Len(compressed_data) :
               /\ compressed_data[k] \in TokenIds
               /\ TokenLen(compressed_data[k]) \in 1..MAX_LENGTH

\* Variant B trained a token of 16 bytes, met a pair that would have made a
\* longer one, and the parser stored the 16-byte token.
C7_Witness ==
    /\ variant = "B" /\ pc = "done"
    /\ \E k \in 1..Len(compressed_data) :
           /\ TokenLen(compressed_data[k]) = MAX_LENGTH
           /\ k < Len(compressed_data)
           /\ TokenLen(compressed_data[k + 1]) >= 1

\* C8: vocabulary cap, both variants, the alphabet being NumBytes byte
\* values (256 in the program) and the largest token id MaxTokenId (65535).
\* next_token_id starts at the size of the alphabet and is the number of
\* tokens (one more per merge), never more than the largest id and never
\* wrapped; when the token with the largest id has been created training is
\* over; token_boundaries has between alphabet + 1 and largest id + 2
\* entries; every token id stored is the id of a token.
C8_VocabularyCap ==
    pc # "new" =>
        /\ next_token_id \in NumBytes..MaxTokenId
        /\ \/ Len(token_boundaries) - 1 = next_token_id
           \/ /\ next_token_id = MaxTokenId
              /\ Len(token_boundaries) - 1 = MaxTokenId + 1
              /\ pc \notin {"train", "pair"}
        /\ Len(token_boundaries) \in (NumBytes + 1)..(MaxTokenId + 2)
        /\ \A k \in 1..Len(compressed_data) : compressed_data[k] \in TokenIds

\* Training created the token with the largest id, stopped, and the call
\* completed with that token in use.
C8_Witness ==
    /\ pc = "done"
    /\ next_token_id = MaxTokenId
    /\ Len(token_boundaries) = MaxTokenId + 2
    /\ \E k \in 1..Len(compressed_data) : compressed_data[k] = MaxTokenId

\* The number of tokens next_token_id stands for: next_token_id, or one
\* more when training stopped at the largest id.
TokenCounts ==
    {next_token_id} \cup
        (IF next_token_id = MaxTokenId THEN {MaxTokenId + 1} ELSE {})

\* C9: boundaries over the life of an instance.  After every completed
\* compress_bytes call, the first or a later one on the same instance,
\* token_boundaries is non-decreasing and has one entry more than there are
\* tokens, and string_boundaries is non-decreasing.
C9_Boundaries ==
    pc = "done" =>
        /\ NonDecreasing(token_boundaries)
        /\ Len(token_boundaries) - 1 \in TokenCounts
        /\ NonDecreasing(string_boundaries)

\* C4: the trie matcher.  After any sequence of inserts of distinct keys
\* (of 1..8 bytes and longer, long keys that share their first 8 bytes or
\* extend one another included), find_longest_match(q) is (id, length) of
\* the longest inserted key that is a prefix of q, and none when no
\* inserted key is a prefix of q, whatever follows the query in memory.
C4_TrieLongestMatch ==
    pc = "lpm" =>
        \A q \in Queries, padb \in Bytes :
            find_longest_match(lpm, q, 0, Len(q), padb)
                = LongestAccepted(accepted, q)

\* The trie holds an 8-byte key and two longer keys that extend it, one
\* extending the other; a query behind the longest, one behind the 8-byte
\* key only, and one no key is a prefix of, got their answers.
C4_Witness ==
    /\ pc = "lpm"
    /\ AcceptedKeys = {W(1), W(1) \o <<0>>, W(1) \o <<0, 1>>}
    /\ find_longest_match(lpm, W(1) \o <<0, 1, 1>>, 0, 11, 0)
           = Some(KeyId(W(1) \o <<0, 1>>), 10)
    /\ find_longest_match(lpm, W(1) \o <<1>>, 0, 9, 0) = Some(KeyId(W(1)), 8)
    /\ find_longest_match(lpm, Rep(1, 7), 0, 7, 1) = NONE

\* C5: the bucketed matcher.  After any sequence of inserts of distinct
\* keys of 1..16 bytes, find_longest_match(q), for q of any length, is
\* (id, length) of the longest accepted key that is a prefix of q, and none
\* when no accepted key is a prefix of q: a key of 9..16 bytes wins over a
\* shorter one and the first bucket entry that matches is the longest.
C5_BucketLongestMatch ==
    pc = "lpm" =>
        \A q \in Queries, padb \in Bytes :
            find_longest_match16(lpm16, q, 0, Len(q), padb)
                = LongestAccepted(accepted, q)

\* The bucketed matcher holds an 8-byte key and, inserted shortest first,
\* keys of 9, 10 and 11 bytes that extend it and one another; a query of 18
\* bytes got the 11-byte key, and a query behind the 8-byte key only got
\* that key.
C5_Witness ==
    /\ pc = "lpm"
    /\ {W(1), W(1) \o <<0>>, W(1) \o <<0, 1>>, W(1) \o <<0, 1, 1>>}
           \subseteq AcceptedKeys
    /\ W(1) \in DOMAIN lpm16.buckets
    /\ lpm16.buckets[W(1)][1][2] = 3
    /\ find_longest_match16(lpm16, W(1) \o <<0, 1, 1>> \o Rep(0, 7), 0, 18, 0)
           = Some(KeyId(W(1) \o <<0, 1, 1>>), 11)
    /\ find_longest_match16(lpm16, W(1) \o <<1>>, 0, 9, 0) = Some(KeyId(W(1)), 8)

\* C3: finalize equivalence.  For a bucketed matcher built by accepted
\* inserts that include the single-byte keys, and every perfect hash
\* finalize may get, the static matcher answers every non-empty query as
\* the dynamic matcher does.
C3_FinalizeEquivalence ==
    pc = "static" =>
        \A q \in Queries \ {<<>>}, padb \in Bytes :
            static_find_longest_match(static_lpm, q, 0, Len(q), padb)
                = find_longest_match16(lpm16, q, 0, Len(q), padb)

\* C10: insert is idempotent on (key, id).  With one (key, id) inserted any
\* number of times, and other keys inserted after it, every
\* find_longest_match answers as on the matcher that got each key once, and
\* every insert of one more key is accepted or refused as on that matcher.
C10_InsertIdempotent ==
    pc = "idem" =>
        LET once == InsertedOnce(KeyOrder(AcceptedKeys), Cardinality(accepted))
        IN  /\ \A q \in Queries, padb \in Bytes :
                   FindOn(lpm, lpm16, q, padb)
                       = FindOn(once.lpm, once.lpm16, q, padb)
            /\ \A key \in IdemKeys \ AcceptedKeys :
                   {o.added : o \in InsertOutcomes(lpm, lpm16, key)}
                       = {o.added : o \in InsertOutcomes(once.lpm, once.lpm16, key)}

\* C11: bucket cap of the bucketed matcher.  After any sequence of inserts
\* no bucket holds more than MAX_BUCKET_SIZE entries, and an insert of a
\* long key into a bucket that holds MAX_BUCKET_SIZE entries is refused and
\* adds nothing.
C11_BucketCap ==
    (pc = "idem" /\ variant = "B") =>
        /\ \A p \in DOMAIN lpm16.buckets :
               Len(lpm16.buckets[p]) <= MAX_BUCKET_SIZE
        /\ \A key \in IdemKeys, padb \in Bytes :
               LET prefix == bytes_to_u64_le(key, 0, 8, padb)
               IN  (/\ Len(key) > 8
                    /\ prefix \in DOMAIN lpm16.buckets
                    /\ Len(lpm16.buckets[prefix]) = MAX_BUCKET_SIZE)
                   => \A o \in insert16(lpm16, key, 0, Len(key), KeyId(key), padb) :
                          ~o.added /\ o.lpm = lpm16

\* C12: decompress_all, both variants.  After compress_bytes on a fresh
\* instance, decompress_all with a buffer of total length + 16 bytes
\* returns the total length of the strings and leaves their concatenation,
\* in input order, at the front of the buffer; for an empty collection it
\* returns 0 and writes nothing.
C12_DecompressAll ==
    decoded.op = "all" =>
        /\ decoded.size = Len(data)
        /\ SubSeq(decoded.buffer, 1, Len(data)) = data
        /\ Len(end_positions) = 1 =>
               /\ decoded.size = 0 /\ decoded.write_end = 0
               /\ \A i \in 1..Len(decoded.buffer) : decoded.buffer[i] = Unwritten

\* Variant B decoded a collection of two non-empty strings, more than 16
\* bytes in all, stored as fewer tokens than bytes.
C12_Witness ==
    /\ decoded.op = "all" /\ variant = "B"
    /\ Len(end_positions) = 3
    /\ StringLen(0) > 0 /\ StringLen(1) > 0
    /\ decoded.size > FAST_COPY_SIZE
    /\ Len(compressed_data) < decoded.size

\* Variant B was given the one string of 18 equal bytes and compress_bytes
\* has returned.
RunOf18Done ==
    /\ variant = "B" /\ pc = "done"
    /\ data = RunString /\ end_positions = <<0, 18>>

\* C13 as stated: variant B stores the one string of 18 equal bytes as at
\* most 2 token ids, and no token of the dictionary is longer than 16 bytes.
C13_AtMostTwoTokens ==
    RunOf18Done =>
        /\ Len(compressed_data) <= 2
        /\ \A i \in TokenIds : TokenLen(i) <= MAX_LENGTH

\* C13, amended: variant B stores the one string of 18 equal bytes as more
\* than 2 token ids for every threshold, and for threshold 2 as exactly 3,
\* of 8, 8 and 2 bytes, the longest token trained being 8 bytes long; no
\* token of the dictionary is longer than 16 bytes.
C13_ThreeTokens ==
    RunOf18Done =>
        /\ Len(compressed_data) > 2
        /\ \A i \in TokenIds : TokenLen(i) <= MAX_LENGTH
        /\ threshold = 2 =>
               /\ Len(compressed_data) = 3
               /\ <<TokenLen(compressed_data[1]), TokenLen(compressed_data[2]),
                    TokenLen(compressed_data[3])>> = <<8, 8, 2>>
               /\ \A i \in TokenIds : TokenLen(i) <= 8

\* Variant B with threshold 2 has compressed the one string of 18 equal
\* bytes.
C13_Witness == RunOf18Done /\ threshold = 2 /\ compressed_data # <<>>

\* The bytes of the token with id token_id.
TokenBytes(token_id) ==
    Slice(dictionary, TokenStart(token_id),
          TokenStart(token_id) + TokenLen(token_id))

TenCopiesRun == variant = "A" /\ data = FlattenData(TenCopies)

\* C14: variant A on ten copies of "user_000001", threshold 2, whatever
\* order the shuffle leaves.  Once training is over the dictionary holds a
\* token equal to the whole 11-byte string, and after compress_bytes each
\* of the ten strings is stored as at most 2 token ids.
C14_TenCopies ==
    TenCopiesRun =>
        /\ pc # "panic" /\ threshold = 2
        /\ pc \in {"parse", "scan", "done"} =>
               \E i \in TokenIds : TokenBytes(i) = UserString
        /\ pc = "done" =>
               /\ Len(string_boundaries) = Len(TenCopies) + 1
               /\ \A s \in 0..(Len(TenCopies) - 1) :
                      Len(StringTokens(s)) \in 1..2

\* compress_bytes has returned for the ten copies, after a shuffle that
\* did not leave them in place, and the last of them is stored as the one
\* token that equals the string.
C14_Witness ==
    /\ TenCopiesRun /\ pc = "done" /\ shuffled_indices[1] # 0
    /\ Len(StringTokens(9)) = 1
    /\ TokenBytes(StringTokens(9)[1]) = UserString

BufferBytes ==
    Len(compressed_data) * 2
        + Len(string_boundaries) * SIZE_OF_USIZE
        + Len(dictionary)
        + Len(token_boundaries) * (IF variant = "A" THEN SIZE_OF_USIZE ELSE 4)

\* C16: after compress_bytes, space_used returns the sum of the sizes in
\* bytes of the compressed token-id buffer, the string_boundaries table,
\* the dictionary arena and the token_boundaries table.
C16_SpaceUsed == pc = "done" => space_used = BufferBytes

\* C17: parser progress in variant B.  Whenever the while loop of
\* parse_data is about to look up the non-empty slice data[pos..end], the
\* static matcher returns a match (id, len) with 1 <= len <= end - pos,
\* whatever the perfect hash built by finalize; so the loop for a string of
\* L bytes has pushed fewer than L ids whenever it is about to turn again.
C17_ParserProgress ==
    (variant = "B" /\ pc = "scan") =>
        LET end == end_positions[it + 2]
        IN  /\ pos < end
            /\ EmittedForCurrent < StringLen(it)
            /\ \A padb \in Bytes :
                   LET m == static_find_longest_match(static_lpm, data, pos,
                                                      end, padb)
                   IN  m.some /\ m.len \in 1..(end - pos)

\* C18: frequency counters stay bounded, both learners.  After every
\* pair-processing step each entry of the frequency map holds a count of
\* at least 1 and strictly below the merge threshold, also after a step
\* in which variant B's insert was refused.
C18_FrequencyBound ==
    \A pair \in DOMAIN frequency : frequency[pair] \in 1..(threshold - 1)

\* The token ids the last decompress call went through.
DecodedIds ==
    IF decoded.op = "all" THEN compressed_data
    ELSE StringTokens(decoded.index)

\* C19: fast-copy write bound.  The caller's buffer being at least
\* (decoded length + 16) bytes long, every write of decompress_string and
\* decompress_all stays inside it: token number k is written from out, the
\* sum of the lengths of the tokens before it, over max(16, token_len)
\* bytes in variant A and 16 bytes in variant B, and that range ends at or
\* before buffer.len().
C19_WriteBound ==
    decoded.op # "none" =>
        /\ Len(decoded.buffer) >= decoded.size + FAST_COPY_SIZE
        /\ decoded.write_end <= Len(decoded.buffer)
        /\ \A k \in 1..Len(DecodedIds) :
               LET out       == SumTokenLens(SubSeq(DecodedIds, 1, k - 1))
                   token_len == TokenLen(DecodedIds[k])
                   n         == IF variant = "A"
                                THEN Max({FAST_COPY_SIZE, token_len})
                                ELSE FAST_COPY_SIZE
               IN  /\ out + n <= Len(decoded.buffer)
                   /\ out + n <= decoded.write_end

\* decompress_string was given a buffer of exactly (decoded length + 16)
\* bytes for a string that ends with a single-byte token, and wrote 15
\* bytes past the end of the string.
C19_Witness ==
    /\ decoded.op = "string" /\ decoded.size > 0
    /\ Len(decoded.buffer) = decoded.size + FAST_COPY_SIZE
    /\ decoded.write_end = decoded.size + FAST_COPY_SIZE - 1

\* C20: fast-copy read bound.  For every token id stored in
\* compressed_data, the 16 bytes the decoder reads from the arena for it
\* end inside the arena: token_boundaries[id] + 16 <= dictionary.len(); and
\* no decompress call read past the end of the arena.
C20_ReadBound ==
    /\ pc = "done" =>
           \A k \in 1..Len(compressed_data) :
               TokenStart(compressed_data[k]) + FAST_COPY_SIZE
                   <= Len(dictionary)
    /\ decoded.read_end <= Len(dictionary)

\* C22: token uniqueness.  At every point of training on a fresh instance
\* and after it, in both variants, for every collection, threshold and
\* order of the shuffle, no two distinct token ids have the same byte
\* string: the learner never appends to the dictionary, nor inserts into
\* the matcher, a merged byte string that is a token already.
C22_TokenUniqueness ==
    calls = 1 =>
        \A i, j \in TokenIds : TokenBytes(i) = TokenBytes(j) => i = j

\* Training is under way in variant B with three merged tokens, the last of
\* them made of a merged token and the token that followed it.
C22_Witness ==
    /\ calls = 1 /\ pc = "pair" /\ variant = "B"
    /\ Len(token_boundaries) - 1 >= scale.bytes + 3
    /\ previous_token_id = next_token_id - 1
    /\ previous_length > 2

\* The (key bytes, id) pairs below node idx of the trie, path being the
\* bytes that lead to the node.
RECURSIVE TrieKeys(_, _, _)
TrieKeys(pool, idx, path) ==
    LET node == pool[idx + 1]
    IN  (IF node.id # NoId THEN {<<path, node.id>>} ELSE {})
            \cup UNION {TrieKeys(pool, node.children[j][2],
                                 Append(path, node.children[j][1])) :
                            j \in 1..Len(node.children)}

\* The (key bytes, id) pairs the dynamic matcher of the variant holds.
ShortPairs(lookup) == {<<SubSeq(k[1], 1, k[2]), lookup[k]>> : k \in DOMAIN lookup}

LpmPairs ==
    ShortPairs(lpm.short_match_lookup)
        \cup UNION {TrieKeys(lpm.node_pool, lpm.long_match_roots[p], p) :
                        p \in DOMAIN lpm.long_match_roots}

Lpm16Pairs ==
    ShortPairs(lpm16.dictionary)
        \cup UNION {{<<p \o SubSeq(lpm16.buckets[p][j][1], 1,
                                   lpm16.buckets[p][j][2]),
                       lpm16.buckets[p][j][3]>> :
                         j \in 1..Len(lpm16.buckets[p])} :
                        p \in DOMAIN lpm16.buckets}

MatcherPairs == IF variant = "A" THEN LpmPairs ELSE Lpm16Pairs

\* The (token bytes, id) pairs of the dictionary arena.
ArenaPairs == {<<TokenBytes(i), i>> : i \in TokenIds}

\* A learner of a fresh instance is between two steps.
Training == calls = 1 /\ pc \in {"train", "pair", "trained"}

\* The lookup the learner makes next returns a token whose arena bytes are
\* the bytes matched.
NextLookupConsistent ==
    pc \in {"train", "pair"} =>
        LET index == shuffled_indices[it + 1]
            from  == IF pc = "train" THEN end_positions[index + 1] ELSE pos
            end   == end_positions[index + 2]
        IN  from < end =>
                \A padb \in Bytes :
                    LET m == TrainFind(data, from, end, padb)
                    IN  /\ m.some /\ m.id \in TokenIds
                        /\ TokenLen(m.id) = m.len
                        /\ TokenBytes(m.id) = Slice(data, from, from + m.len)

\* A step of variant B's learner whose insert was refused: the count of a
\* pair is at the threshold or above it after the step.
RefusedInsert ==
    /\ pc = "pair" /\ variant = "B"
    /\ \E pair \in DOMAIN frequency' :
           /\ frequency'[pair] >= threshold
           /\ pair \in DOMAIN frequency => frequency'[pair] > frequency[pair]

\* The matcher holds the (bytes, id) pairs of the arena, the ids being
\* exactly 0..next_token_id - 1, and the next lookup is consistent.
MatcherArenaExact ==
    Training =>
        /\ MatcherPairs = ArenaPairs
        /\ TokenIds = 0..(next_token_id - 1)
        /\ NextLookupConsistent

\* The same, the ids being 0..next_token_id when training has stopped at
\* the largest id: next_token_id is then the id of the last token and not
\* the number of tokens.
MatcherArenaCap ==
    Training =>
        /\ MatcherPairs = ArenaPairs
        /\ \/ TokenIds = 0..(next_token_id - 1)
           \/ /\ pc = "trained" /\ next_token_id = scale.max_id
              /\ TokenIds = 0..next_token_id
        /\ NextLookupConsistent

\* The step of variant B's learner whose insert is refused leaves the
\* arena, token_boundaries, next_token_id and the matcher unchanged.
RefusedInsertInert ==
    RefusedInsert =>
        UNCHANGED <<dictionary, token_boundaries, next_token_id, lpm16>>

\* C21 as stated: after every step of either learner the dynamic matcher
\* holds exactly the (token bytes, id) pairs of the arena, the ids being
\* exactly 0..next_token_id - 1, and the lookup that follows returns a
\* token whose length is the length matched and whose arena bytes are the
\* bytes matched; a refused insert of variant B leaves the arena,
\* token_boundaries, next_token_id and the matcher unchanged.
C21_MatcherArena == []MatcherArenaExact /\ [][RefusedInsertInert]_vars

\* C21, amended: as stated, except that the ids are 0..next_token_id once
\* training has stopped at the largest token id.
C21_MatcherArenaCap == []MatcherArenaCap /\ [][RefusedInsertInert]_vars

\* Variant B's learner is between two steps after an insert was refused:
\* the count of a pair is at the threshold.
C21_Witness ==
    /\ Training /\ variant = "B"
    /\ \E pair \in DOMAIN frequency : frequency[pair] >= threshold
    /\ Len(token_boundaries) - 1 > scale.bytes

====
